---- MODULE Spec2Model ----
(***************************************************************************)
(* The Emglken JS library of remglk-rs: the Event Bridge                   *)
(* (emglken_get_glkote_event) and the Storage Bridge (emglken_file_...),   *)
(* with the Buffer Codec (writeBuffer, writeBufferJSON) they write their   *)
(* results through.                                                        *)
(*                                                                         *)
(* The VM is one logical thread (context 1).  A boundary call that awaits  *)
(* parks the context at the await; the host (event publication, storage    *)
(* provider completion) runs only while the VM is parked.  Context 2 is a  *)
(* re-entrant entry into the VM made while context 1 is parked.            *)
(*                                                                         *)
(* Beside them: the Dispatch Registry of the C support code                *)
(* (gidispatch_get_objrock, the registry setters and the register shims),  *)
(* emglken_fileref_temporary of the file reference generation, and the     *)
(* Unicode Buffer Transformer of the library core.                         *)
(***************************************************************************)
EXTENDS Integers, Sequences, FiniteSets, TLC

\* ---------------------------------------------------------------- bounds
\* Number of byte cells of VM-owned linear memory the VM passes buffers from.
VmSize == 2

\* Largest length of a byte sequence handed to writeBuffer directly.
MaxLen == 2

\* Largest capacity, in code points, of a buffer handed to a Unicode transform.
MaxCap == 3

\* ------------------------------------------------------------- constants
storyfile_name == "story.ulx"
storyfile_data == <<1, 1>>
Paths == {storyfile_name, "save.glksave"}
Byte == {0, 1}
\* Lengths of the buffers the VM hands to emglken_file_write_buffer.
BufLens == {0, 1}
\* Addresses _malloc hands out (the allocator's arena, apart from the VM's cells).
MallocPtrs == {100, 200}
NULL == 0
Events == {"init", "char"}
null == "null"
Ctx == {1, 2}

VARIABLES
    pc,                  \* pc[c]: where context c is (running, parked at an await, ...)
    arg,                 \* the argument of the provider call awaited: a path, or the files object
    glkote_event_data,   \* the Pending Event mailbox: null or an event
    glkote_event_ready,  \* the resolve callback last installed: 0 (none) or the context whose promise it resolves
    resolved,            \* the contexts whose awaited promise has been resolved
    emglken_files,       \* the Write Batch: path -> view (ptr, len) of HEAP8
    HEAP8,               \* the VM-owned cells of linear memory
    malloc_heap,         \* the live blocks of the allocator: ptr -> bytes
    buffer,              \* the caller's out descriptor (pointer, length)
    Dialog_files,        \* the host storage provider's files: path -> bytes
    Dialog_promise,      \* the promise of the provider call awaited: none, pending, fulfilled, rejected
    ret,                 \* the result of the boundary call that has just returned
    uncollected,         \* history: events published and not yet returned by a call
    given,               \* history: given[p] is <<bytes>> of the latest write to p, or <<>>
    published,           \* history: the events published and not yet returned, oldest first
    Dialog_usage,        \* the usage the provider was last asked a temporary reference for
    gli_register_obj,    \* support.c: the VM's object register callback, or NULL
    gli_register_arr,    \* support.c: the VM's array register callback, or NULL
    gli_unregister_arr,  \* support.c: the VM's array unregister callback, or NULL
    registry_rs,         \* the callbacks the library core holds: of objects, of retained arrays
    objects,             \* the library's live objects: obj -> class, rock stored, rock the VM gave
    arrays,              \* the retained arrays: array -> rock stored
    objrock,             \* the outcome of the gidispatch_get_objrock call last made
    uni_buf,             \* the code point buffer the VM hands to a Unicode transform
    uni_call             \* the Unicode transform call last made, with its result

vars == <<pc, arg, glkote_event_data, glkote_event_ready, resolved, emglken_files,
          HEAP8, malloc_heap, buffer, Dialog_files, Dialog_promise, ret, uncollected,
          given, published, Dialog_usage, gli_register_obj, gli_register_arr,
          gli_unregister_arr, registry_rs, objects, arrays, objrock, uni_buf, uni_call>>

eventVars == <<glkote_event_data, glkote_event_ready, resolved, uncollected, published>>
storageVars == <<emglken_files, Dialog_files, Dialog_promise, given, Dialog_usage>>
dispatchVars == <<gli_register_obj, gli_register_arr, gli_unregister_arr, registry_rs,
                  objects, arrays, objrock>>
unicodeVars == <<uni_buf, uni_call>>
\* What the JS library's calls leave alone: the C support code and the library core.
glkVars == <<dispatchVars, unicodeVars>>

\* --------------------------------------------------------------- helpers
None == <<>>
Some(x) == <<x>>

\* obj[key] = value on a JS object
Put(obj, key, value) ==
    [k \in (DOMAIN obj) \cup {key} |-> IF k = key THEN value ELSE obj[k]]

Remove(obj, key) == [k \in (DOMAIN obj) \ {key} |-> obj[k]]

EmptyObject == [k \in {} |-> None]

\* A queue without its head.
Rest(q) == IF q = <<>> THEN <<>> ELSE Tail(q)

NoRet == [op |-> "none", path |-> "", val |-> "none"]
\* No gidispatch_get_objrock call made yet; no Unicode transform call made yet.
NoObjrock == [outcome |-> "none", obj |-> "", objclass |-> 0, rock |-> 0]
NoUniCall == [op |-> "none", before |-> <<>>, numchars |-> 0, result |-> <<>>, ret |-> 0]
Ret(op, path, val) == [op |-> op, path |-> path, val |-> val]

\* The context is back in the VM: context 1 runs on, the re-entrant context 2 ends.
Idle(c) == IF c = 1 THEN "running" ELSE "inactive"

\* HEAP8.subarray(ptr, ptr + len): a view, read when it is used
Subarray(view) == [i \in 1..view.len |-> HEAP8[view.ptr + i - 1]]

\* The views a caller can pass: len cells from ptr, inside the VM's cells.
Views == {v \in [ptr : 0..(VmSize - 1), len : BufLens] :
            /\ v.ptr + v.len <= VmSize
            /\ (v.len = 0 => v.ptr = 0)}

\* ---------------------------------------------------------- Buffer Codec
\* JSON.stringify(data), as the text's tokens
JSON_stringify(data) ==
    IF data = null THEN <<"null">> ELSE <<"{", "type", ":", data, "}">>

\* JSON.stringify(fref) of a file reference: a property that is undefined is left out
JSON_stringify_fref(fref) ==
    IF fref.usage = "undefined"
    THEN <<"{", "filename", ":", fref.filename, "}">>
    ELSE <<"{", "filename", ":", fref.filename, ",", "usage", ":", fref.usage, "}">>

\* encoder.encode(json): the code of each token
Utf8 == [t \in {"null", "{", "}", ":", "type", "init", "char", ",", "filename", "usage",
                "tmp", "data", "save", "transcript", "command"} |->
            CASE t = "null" -> 110
              [] t = "{" -> 123
              [] t = "}" -> 125
              [] t = ":" -> 58
              [] t = "type" -> 116
              [] t = "init" -> 105
              [] t = "char" -> 99
              [] t = "," -> 44
              [] t = "filename" -> 102
              [] t = "usage" -> 117
              [] t = "tmp" -> 109
              [] t = "data" -> 100
              [] t = "save" -> 115
              [] t = "transcript" -> 114
              [] t = "command" -> 111]

encoder_encode(json) == [i \in 1..Len(json) |-> Utf8[json[i]]]

CanMalloc == MallocPtrs \ DOMAIN malloc_heap # {}

\* _malloc(n): a block that is not live
_malloc == CHOOSE p \in MallocPtrs \ DOMAIN malloc_heap :
              \A q \in MallocPtrs \ DOMAIN malloc_heap : p <= q

\* A writeBuffer that allocates and fills the descriptor but does not copy.
writeBuffer_nocopy(data) ==
    /\ malloc_heap' = Put(malloc_heap, _malloc, [i \in 1..Len(data) |-> 0])
    /\ buffer' = [ptr |-> _malloc, len |-> Len(data)]

\* writeBuffer(buffer, data): allocate, copy, fill the out descriptor
writeBuffer(data) ==
    /\ malloc_heap' = Put(malloc_heap, _malloc, data)
    /\ buffer' = [ptr |-> _malloc, len |-> Len(data)]

writeBufferJSON(data) == writeBuffer(encoder_encode(JSON_stringify(data)))

\* writeBufferJSON(buffer, fref) with a file reference
writeBufferJSON_fref(fref) == writeBuffer(encoder_encode(JSON_stringify_fref(fref)))

\* The bytes the out descriptor points at.
OutBytes == IF buffer.ptr \in DOMAIN malloc_heap THEN Some(malloc_heap[buffer.ptr]) ELSE None

\* if (data): null and undefined are falsy, a Uint8Array (even an empty one) is truthy
Truthy(data) == data # None

TypeOK ==
    /\ pc \in [Ctx -> {"running", "inactive", "get_event_await", "file_exists_await",
                       "file_read_await", "file_flush_await", "file_delete_await",
                       "rejected"}]
    /\ (pc[1] # "file_flush_await" => arg \in Paths \cup {""})
    /\ glkote_event_data \in Events \cup {null}
    /\ glkote_event_ready \in {0} \cup Ctx
    /\ resolved \subseteq Ctx
    /\ DOMAIN emglken_files \subseteq Paths
    /\ \A p \in DOMAIN emglken_files : emglken_files[p] \in Views
    /\ HEAP8 \in [0..(VmSize - 1) -> Byte]
    /\ DOMAIN malloc_heap \subseteq MallocPtrs
    /\ buffer.ptr \in MallocPtrs \cup {NULL}
    /\ DOMAIN Dialog_files \subseteq Paths
    /\ Dialog_promise \in {"none", "pending", "fulfilled", "rejected"}
    /\ uncollected \in Int
    /\ published \in Seq(Events)
    /\ Dialog_usage \in {"none", "undefined", "data", "save", "transcript", "command"}
    /\ DOMAIN objects \subseteq {"obj1", "obj2"}
    /\ DOMAIN arrays \subseteq {"arr1"}
    /\ objrock.outcome \in {"none", "returned", "trapped"}
    /\ Len(uni_buf) <= MaxCap

Init ==
    /\ pc = [c \in Ctx |-> Idle(c)]
    /\ arg = ""
    /\ glkote_event_data = null
    /\ glkote_event_ready = 0
    /\ resolved = {}
    /\ emglken_files = EmptyObject
    /\ HEAP8 \in [0..(VmSize - 1) -> Byte]
    /\ malloc_heap = EmptyObject
    /\ buffer = [ptr |-> NULL, len |-> 0]
    /\ \E have \in SUBSET {storyfile_name} : Dialog_files = [p \in have |-> <<0>>]
    /\ Dialog_promise = "none"
    /\ ret = NoRet
    /\ uncollected = 0
    /\ given = [p \in Paths |-> None]
    /\ published = <<>>
    /\ Dialog_usage = "none"
    /\ gli_register_obj = NULL
    /\ gli_register_arr = NULL
    /\ gli_unregister_arr = NULL
    /\ registry_rs = [object |-> None, retained |-> None]
    /\ objects = EmptyObject
    /\ arrays = EmptyObject
    /\ objrock = NoObjrock
    /\ uni_buf = <<>>
    /\ uni_call = NoUniCall

\* ----------------------------------------------------------------- the VM
\* The VM reads the result of the call that returned: it copies the bytes out of
\* the block the out descriptor names, releases the block (it owns it), clears the
\* descriptor for its next call, and runs on.
VmTakeResult ==
    /\ ret # NoRet
    /\ ret' = NoRet
    /\ malloc_heap' = Remove(malloc_heap, buffer.ptr)
    /\ buffer' = [ptr |-> NULL, len |-> 0]
    /\ UNCHANGED <<pc, arg, HEAP8, eventVars, storageVars>>
    /\ UNCHANGED glkVars

\* The VM stores a byte in one of its own cells (it fills, reuses or frees a buffer).
VmStore(addr, b) ==
    /\ pc[1] = "running"
    /\ ret = NoRet
    /\ HEAP8[addr] # b
    /\ HEAP8' = [HEAP8 EXCEPT ![addr] = b]
    /\ UNCHANGED <<pc, arg, malloc_heap, buffer, ret, eventVars, storageVars>>
    /\ UNCHANGED glkVars

\* The VM may issue a boundary call: it is running and no call is returning.
VmCalls == pc[1] = "running" /\ ret = NoRet

\* ------------------------------------------------------------ Event Bridge
\* The host has control: the VM is parked and no continuation is queued
\* (a resolved promise's continuation runs before the host's next task).
HostRuns ==
    /\ pc[1] # "running"
    /\ resolved = {}
    /\ Dialog_promise \in {"none", "pending"}

\* The host publishes an event: it fills the mailbox and calls the resolve callback.
\* It does so only when the mailbox is empty.  Calling the callback of a promise
\* that is already resolved does nothing.
HostPublish(ev) ==
    /\ HostRuns
    /\ glkote_event_data = null
    /\ glkote_event_data' = ev
    /\ uncollected' = uncollected + 1
    /\ published' = Append(published, ev)
    /\ resolved' = IF glkote_event_ready # 0 /\ pc[glkote_event_ready] = "get_event_await"
                   THEN resolved \cup {glkote_event_ready}
                   ELSE resolved
    /\ UNCHANGED <<pc, arg, glkote_event_ready, malloc_heap, buffer, ret, HEAP8, storageVars>>
    /\ UNCHANGED glkVars

\* await new Promise(...): the continuation runs once the promise is resolved
Awaited_timeout(c) == TRUE

Awaited(c) == c \in resolved

\* The earlier generation: writeBufferJSON(buffer, glkote_event_data), mailbox kept.
deliver_keep(c) ==
    /\ writeBufferJSON(glkote_event_data)
    /\ glkote_event_data' = glkote_event_data
    /\ uncollected' = uncollected - 1
    /\ published' = Rest(published)
    /\ pc' = [pc EXCEPT ![c] = Idle(c)]
    /\ ret' = Ret("get_glkote_event", "", "void")

\* writeBufferJSON(buffer, glkote_event_data); glkote_event_data = null; return
deliver(c) ==
    /\ writeBufferJSON(glkote_event_data)
    /\ glkote_event_data' = null
    /\ uncollected' = uncollected - 1
    /\ published' = Rest(published)
    /\ pc' = [pc EXCEPT ![c] = Idle(c)]
    /\ ret' = Ret("get_glkote_event", "", "void")

\* await new Promise(resolve => { glkote_event_ready = resolve })
wait(c) ==
    /\ glkote_event_ready' = c
    /\ resolved' = resolved \ {c}
    /\ pc' = [pc EXCEPT ![c] = "get_event_await"]
    /\ UNCHANGED <<glkote_event_data, uncollected, published, malloc_heap, buffer, ret>>

\* The earlier generations: always await a new promise, whatever the mailbox holds.
get_glkote_event_await(c) == wait(c)

\* emglken_get_glkote_event(buffer), to its await or, with the mailbox full, to its end
get_glkote_event(c) ==
    IF glkote_event_data # null
    THEN deliver(c) /\ UNCHANGED <<glkote_event_ready, resolved>>
    ELSE wait(c)

emglken_get_glkote_event ==
    /\ VmCalls
    /\ CanMalloc
    /\ get_glkote_event(1)
    /\ UNCHANGED <<arg, HEAP8, storageVars>>
    /\ UNCHANGED glkVars

\* emglken_get_glkote_event resumed after its await
emglken_get_glkote_event_resume(c) ==
    /\ pc[c] = "get_event_await"
    /\ Awaited(c)
    /\ deliver(c)
    /\ resolved' = resolved \ {c}
    /\ UNCHANGED <<arg, glkote_event_ready, HEAP8, storageVars>>
    /\ UNCHANGED glkVars

\* The host enters the VM again while context 1 is parked in emglken_get_glkote_event
\* and no event has been delivered: the VM calls emglken_get_glkote_event once more.
Reenter_get_glkote_event ==
    /\ pc[1] = "get_event_await"
    /\ 1 \notin resolved
    /\ pc[2] = "inactive"
    /\ ret = NoRet
    /\ CanMalloc
    /\ get_glkote_event(2)
    /\ UNCHANGED <<arg, HEAP8, storageVars>>
    /\ UNCHANGED glkVars

\* ---------------------------------------------------------- Storage Bridge
\* The host storage provider (Dialog), a store of files by path.
\* Dialog.read(path): the file's bytes, or null when there is none
Dialog_read(path) ==
    IF path \in DOMAIN Dialog_files THEN Some(Dialog_files[path]) ELSE None

\* Dialog.exists(path)
Dialog_exists(path) == path \in DOMAIN Dialog_files

\* Dialog.write(files): every entry of files stored, with the bytes its view shows
Dialog_write(files) ==
    [p \in (DOMAIN Dialog_files) \cup (DOMAIN files) |->
        IF p \in DOMAIN files THEN Subarray(files[p]) ELSE Dialog_files[p]]

\* Dialog.delete(path)
Dialog_delete(path) == Remove(Dialog_files, path)

\* A boundary call parks at its await of a provider promise.
Park(at, path) ==
    /\ VmCalls
    /\ pc' = [pc EXCEPT ![1] = at]
    /\ arg' = path
    /\ Dialog_promise' = "pending"

\* The continuation of a parked call returns to the VM.
Return(op, val) ==
    /\ pc' = [pc EXCEPT ![1] = "running"]
    /\ ret' = Ret(op, IF op = "file_flush" THEN "" ELSE arg, val)
    /\ arg' = ""
    /\ Dialog_promise' = "none"

\* The provider settles the promise the parked call awaits.  A write may fail;
\* then nothing is stored.
DialogSettle(ok) ==
    /\ Dialog_promise = "pending"
    /\ pc[1] \in {"file_exists_await", "file_read_await", "file_flush_await",
                  "file_delete_await"}
    /\ (~ok => pc[1] = "file_flush_await")
    /\ Dialog_promise' = IF ok THEN "fulfilled" ELSE "rejected"
    /\ Dialog_files' = CASE ok /\ pc[1] = "file_flush_await" -> Dialog_write(arg)
                         [] ok /\ pc[1] = "file_delete_await" -> Dialog_delete(arg)
                         [] OTHER -> Dialog_files
    /\ given' = IF pc[1] = "file_delete_await" /\ arg \notin DOMAIN emglken_files
                THEN [given EXCEPT ![arg] = None]
                ELSE given
    /\ UNCHANGED <<pc, arg, emglken_files, Dialog_usage, HEAP8, malloc_heap, buffer, ret,
                   eventVars>>
    /\ UNCHANGED glkVars

\* emglken_file_delete(path_ptr, path_len): await Dialog.delete(path)
emglken_file_delete(path) ==
    /\ Park("file_delete_await", path)
    /\ UNCHANGED <<emglken_files, Dialog_files, given, Dialog_usage, HEAP8, malloc_heap,
                   buffer, ret, eventVars>>
    /\ UNCHANGED glkVars

\* A delete that also drops the path's pending write from the batch.
emglken_file_delete_resume_drop ==
    /\ pc[1] = "file_delete_await"
    /\ Dialog_promise = "fulfilled"
    /\ Return("file_delete", "void")
    /\ emglken_files' = Remove(emglken_files, arg)
    /\ UNCHANGED <<Dialog_files, given, Dialog_usage, HEAP8, malloc_heap, buffer, eventVars>>
    /\ UNCHANGED glkVars

emglken_file_delete_resume ==
    /\ pc[1] = "file_delete_await"
    /\ Dialog_promise = "fulfilled"
    /\ Return("file_delete", "void")
    /\ UNCHANGED <<emglken_files, Dialog_files, given, Dialog_usage, HEAP8, malloc_heap,
                   buffer, eventVars>>
    /\ UNCHANGED glkVars

\* emglken_file_exists(path_ptr, path_len): return Dialog.exists(path)
emglken_file_exists(path) ==
    /\ Park("file_exists_await", path)
    /\ UNCHANGED <<emglken_files, Dialog_files, given, Dialog_usage, HEAP8, malloc_heap,
                   buffer, ret, eventVars>>
    /\ UNCHANGED glkVars

emglken_file_exists_resume ==
    /\ pc[1] = "file_exists_await"
    /\ Dialog_promise = "fulfilled"
    /\ Return("file_exists", IF Dialog_exists(arg) THEN "true" ELSE "false")
    /\ UNCHANGED <<emglken_files, Dialog_files, given, Dialog_usage, HEAP8, malloc_heap,
                   buffer, eventVars>>
    /\ UNCHANGED glkVars

\* The later-superseded generation: Dialog.write(path, data) at once, no batch.
file_write_buffer_immediate(path, buf_ptr, buf_len) ==
    /\ emglken_files' = emglken_files
    /\ Dialog_files' = Put(Dialog_files, path, Subarray([ptr |-> buf_ptr, len |-> buf_len]))

\* emglken_files[path] = HEAP8.subarray(buf_ptr, buf_ptr + buf_len)
file_write_buffer(path, buf_ptr, buf_len) ==
    /\ emglken_files' = Put(emglken_files, path, [ptr |-> buf_ptr, len |-> buf_len])
    /\ Dialog_files' = Dialog_files

\* emglken_file_write_buffer(path_ptr, path_len, buf_ptr, buf_len)
emglken_file_write_buffer(path, buf_ptr, buf_len) ==
    /\ VmCalls
    /\ file_write_buffer(path, buf_ptr, buf_len)
    /\ given' = [given EXCEPT ![path] = Some(Subarray([ptr |-> buf_ptr, len |-> buf_len]))]
    /\ ret' = Ret("file_write_buffer", path, "void")
    /\ UNCHANGED <<pc, arg, Dialog_promise, Dialog_usage, HEAP8, malloc_heap, buffer,
                   eventVars>>
    /\ UNCHANGED glkVars

\* emglken_file_flush(): await Dialog.write(emglken_files)
emglken_file_flush ==
    /\ Park("file_flush_await", emglken_files)
    /\ UNCHANGED <<emglken_files, Dialog_files, given, Dialog_usage, HEAP8, malloc_heap,
                   buffer, ret, eventVars>>
    /\ UNCHANGED glkVars

\* A flush that forgets to clear the batch.
file_flush_after_await_keep ==
    IF Dialog_promise = "fulfilled"
    THEN emglken_files' = emglken_files /\ Return("file_flush", "void")
    ELSE /\ pc' = [pc EXCEPT ![1] = "rejected"]
         /\ arg' = ""
         /\ Dialog_promise' = "none"
         /\ UNCHANGED <<emglken_files, ret>>

\* A flush that clears the batch and returns whatever the provider did.
file_flush_after_await_finally ==
    emglken_files' = EmptyObject /\ Return("file_flush", "void")

\* emglken_files = {} once the awaited Dialog.write is fulfilled; when it is
\* rejected the async function rejects at the await and the rest does not run.
file_flush_after_await ==
    IF Dialog_promise = "fulfilled"
    THEN emglken_files' = EmptyObject /\ Return("file_flush", "void")
    ELSE /\ pc' = [pc EXCEPT ![1] = "rejected"]
         /\ arg' = ""
         /\ Dialog_promise' = "none"
         /\ UNCHANGED <<emglken_files, ret>>

emglken_file_flush_resume ==
    /\ pc[1] = "file_flush_await"
    /\ Dialog_promise \in {"fulfilled", "rejected"}
    /\ file_flush_after_await
    /\ UNCHANGED <<Dialog_files, given, Dialog_usage, HEAP8, malloc_heap, buffer, eventVars>>
    /\ UNCHANGED glkVars

\* A read that writes the out descriptor without testing the data.
file_read_result_unchecked(op, data) ==
    /\ writeBuffer(IF Truthy(data) THEN data[1] ELSE <<>>)
    /\ Return(op, IF Truthy(data) THEN "true" ELSE "false")

\* if (data) { writeBuffer(buffer, data); return true }; return false
file_read_result(op, data) ==
    IF Truthy(data)
    THEN writeBuffer(data[1]) /\ Return(op, "true")
    ELSE Return(op, "false") /\ UNCHANGED <<malloc_heap, buffer>>

\* emglken_file_read(path_ptr, path_len, buffer): const data = await Dialog.read(path)
emglken_file_read(path) ==
    /\ CanMalloc
    /\ Park("file_read_await", path)
    /\ UNCHANGED <<emglken_files, Dialog_files, given, Dialog_usage, HEAP8, malloc_heap,
                   buffer, ret, eventVars>>
    /\ UNCHANGED glkVars

emglken_file_read_resume ==
    /\ pc[1] = "file_read_await"
    /\ Dialog_promise = "fulfilled"
    /\ file_read_result("file_read", Dialog_read(arg))
    /\ UNCHANGED <<emglken_files, Dialog_files, given, Dialog_usage, HEAP8, eventVars>>
    /\ UNCHANGED glkVars

\* ------------------------------------------- the earlier storage generations
\* A call that does not park returns at once.
ReturnNow(op, path, val) ==
    /\ ret' = Ret(op, path, val)
    /\ UNCHANGED <<pc, arg, Dialog_promise>>

\* emglken_fileref_exists(fref_ptr, fref_len): the storyfile always exists
emglken_fileref_exists(name) ==
    /\ VmCalls
    /\ ReturnNow("fileref_exists", name,
                 IF name = storyfile_name THEN "true"
                 ELSE IF Dialog_exists(name) THEN "true" ELSE "false")
    /\ UNCHANGED <<emglken_files, Dialog_files, given, Dialog_usage, HEAP8, malloc_heap,
                   buffer, eventVars>>
    /\ UNCHANGED glkVars

\* emglken_fileref_read(fref_ptr, fref_len, buffer): only the storyfile can be read
emglken_fileref_read(name) ==
    /\ VmCalls
    /\ CanMalloc
    /\ IF name = storyfile_name
       THEN writeBuffer(storyfile_data) /\ ReturnNow("fileref_read", name, "true")
       ELSE ReturnNow("fileref_read", name, "false") /\ UNCHANGED <<malloc_heap, buffer>>
    /\ UNCHANGED <<emglken_files, Dialog_files, given, Dialog_usage, HEAP8, eventVars>>
    /\ UNCHANGED glkVars

\* emglken_fileref_delete(fref_ptr, fref_len): Dialog.file_remove_ref(fref)
emglken_fileref_delete(name) ==
    /\ VmCalls
    /\ Dialog_files' = Dialog_delete(name)
    /\ given' = IF name \notin DOMAIN emglken_files
                THEN [given EXCEPT ![name] = None]
                ELSE given
    /\ ReturnNow("fileref_delete", name, "void")
    /\ UNCHANGED <<emglken_files, Dialog_usage, HEAP8, malloc_heap, buffer, eventVars>>
    /\ UNCHANGED glkVars

\* $FILETYPES: ['data', 'save', 'transcript', 'command']
FILETYPES == <<"data", "save", "transcript", "command">>

\* The values of filetype a caller passes: the four indices and one on either side.
FileTypeValues == (0 - 1)..Len(FILETYPES)

\* FILETYPES[filetype]: undefined outside the array
FILETYPES_at(filetype) ==
    IF filetype \in 0..(Len(FILETYPES) - 1) THEN FILETYPES[filetype + 1] ELSE "undefined"

\* Dialog.file_construct_temp_ref(usage): a reference to a new temporary file
Dialog_file_construct_temp_ref(usage) == [filename |-> "tmp", usage |-> usage]

\* emglken_fileref_temporary(filetype, buffer)
emglken_fileref_temporary(filetype) ==
    /\ VmCalls
    /\ CanMalloc
    /\ LET fref == Dialog_file_construct_temp_ref(FILETYPES_at(filetype))
       IN  /\ Dialog_usage' = FILETYPES_at(filetype)
           /\ writeBufferJSON_fref(fref)
    /\ ReturnNow("fileref_temporary", "", "void")
    /\ UNCHANGED <<emglken_files, Dialog_files, given, HEAP8, eventVars>>
    /\ UNCHANGED glkVars

\* Dialog.file_fopen(filemode_Read, fref), then the whole stream read: null when
\* the stream cannot be opened
Dialog_file_fopen_read(path, opens) ==
    IF opens /\ path \in DOMAIN Dialog_files THEN Some(Dialog_files[path]) ELSE None

\* emglken_file_read(path_ptr, path_len, buffer) of the streaming generation
emglken_file_read_streaming(path, streaming, opens) ==
    /\ VmCalls
    /\ CanMalloc
    /\ LET data == IF path = storyfile_name THEN Some(storyfile_data)
                   ELSE IF streaming THEN Dialog_file_fopen_read(path, opens)
                   ELSE Dialog_read(path)
       IN  IF Truthy(data)
           THEN writeBuffer(data[1]) /\ ReturnNow("file_read_streaming", path, "true")
           ELSE /\ ReturnNow("file_read_streaming", path, "false")
                /\ UNCHANGED <<malloc_heap, buffer>>
    /\ UNCHANGED <<emglken_files, Dialog_files, given, Dialog_usage, HEAP8, eventVars>>
    /\ UNCHANGED glkVars

\* ------------------------------------------------ the Buffer Codec on its own
\* The byte sequences of length 0..MaxLen.
ByteSeqs == UNION {[1..n -> Byte] : n \in 0..MaxLen}

\* A boundary call whose whole effect is writeBuffer(buffer, data).
call_writeBuffer(data) ==
    /\ VmCalls
    /\ CanMalloc
    /\ writeBuffer(data)
    /\ ret' = Ret("writeBuffer", "", "void")
    /\ UNCHANGED <<pc, arg, HEAP8, eventVars, storageVars>>
    /\ UNCHANGED glkVars

\* A boundary call whose whole effect is writeBufferJSON(buffer, data).
call_writeBufferJSON(data) ==
    /\ VmCalls
    /\ CanMalloc
    /\ writeBufferJSON(data)
    /\ ret' = Ret("writeBufferJSON", "", "void")
    /\ UNCHANGED <<pc, arg, HEAP8, eventVars, storageVars>>
    /\ UNCHANGED glkVars

\* The VM reads the result and keeps the block it now owns for later.
VmKeepResult ==
    /\ ret # NoRet
    /\ ret' = NoRet
    /\ buffer' = [ptr |-> NULL, len |-> 0]
    /\ UNCHANGED <<pc, arg, HEAP8, malloc_heap, eventVars, storageVars>>
    /\ UNCHANGED glkVars

\* The VM frees a block it kept.
VmFree(ptr) ==
    /\ pc[1] = "running"
    /\ ret = NoRet
    /\ ptr \in DOMAIN malloc_heap
    /\ malloc_heap' = Remove(malloc_heap, ptr)
    /\ UNCHANGED <<pc, arg, HEAP8, buffer, ret, eventVars, storageVars>>
    /\ UNCHANGED glkVars

\* ------------------------------------------------------- Dispatch Registry
\* The object classes of gi_dispa.h.
gidisp_Class_Window == 0
gidisp_Class_Stream == 1
gidisp_Class_Fileref == 2
gidisp_Class_Schannel == 3
ObjClasses == {gidisp_Class_Window, gidisp_Class_Stream, gidisp_Class_Fileref,
               gidisp_Class_Schannel}
\* The values of objclass a caller passes: the four classes and one that is none.
ObjClassValues == ObjClasses \cup {gidisp_Class_Schannel + 1}
Objs == {"obj1", "obj2"}
Arrays == {"arr1"}
\* The rocks the VM's register callbacks return.
Rocks == {1, 2}
\* The (regi, unregi) pairs of callbacks a caller of the setters passes, by address.
RegistryFns == {<<1, 2>>, <<3, 4>>}

\* The process runs until a call traps.
Alive == objrock.outcome # "trapped"

\* gidispatch_set_object_registry_rs(regi, unregi): the library core keeps the pair
gidispatch_set_object_registry_rs(regi, unregi) ==
    [registry_rs EXCEPT !.object = Some([regi |-> regi, unregi |-> unregi])]

\* gidispatch_set_retained_registry_rs(regi, unregi): the library core keeps the pair
gidispatch_set_retained_registry_rs(regi, unregi) ==
    [registry_rs EXCEPT !.retained = Some([regi |-> regi, unregi |-> unregi])]

\* gidispatch_set_object_registry(regi, unregi)
gidispatch_set_object_registry(regi, unregi) ==
    /\ Alive
    /\ gli_register_obj' = regi
    /\ registry_rs' =
          gidispatch_set_object_registry_rs("gidispatch_call_object_register", unregi)
    /\ UNCHANGED <<gli_register_arr, gli_unregister_arr, objects, arrays, objrock>>
    /\ UNCHANGED <<pc, arg, HEAP8, malloc_heap, buffer, ret, eventVars, storageVars,
                   unicodeVars>>

\* gidispatch_set_retained_registry(regi, unregi)
gidispatch_set_retained_registry(regi, unregi) ==
    /\ Alive
    /\ gli_register_arr' = regi
    /\ gli_unregister_arr' = unregi
    /\ registry_rs' =
          gidispatch_set_retained_registry_rs("gidispatch_call_array_register",
                                              "gidispatch_call_array_unregister")
    /\ UNCHANGED <<gli_register_obj, objects, arrays, objrock>>
    /\ UNCHANGED <<pc, arg, HEAP8, malloc_heap, buffer, ret, eventVars, storageVars,
                   unicodeVars>>

\* gidispatch_call_object_register(obj, objclass, rock_ptr), called by the library
\* core for an object it has made, rock_ptr naming the object's rock field:
\* rock = gli_register_obj(obj, objclass), any rock the VM chooses; *rock_ptr = rock
gidispatch_call_object_register(obj, objclass, rock) ==
    /\ Alive
    /\ registry_rs.object # None
    /\ registry_rs.object[1].regi = "gidispatch_call_object_register"
    /\ gli_register_obj # NULL
    /\ obj \notin DOMAIN objects
    /\ objects' = Put(objects, obj,
                      [class |-> objclass, disprock |-> rock, registered |-> rock])
    /\ UNCHANGED <<gli_register_obj, gli_register_arr, gli_unregister_arr, registry_rs,
                   arrays, objrock>>
    /\ UNCHANGED <<pc, arg, HEAP8, malloc_heap, buffer, ret, eventVars, storageVars,
                   unicodeVars>>

\* The library core unregisters an object it deletes: unregi(obj, objclass, objrock),
\* the VM's own callback, handed to the core as it came.
object_unregister(obj) ==
    /\ Alive
    /\ registry_rs.object # None
    /\ obj \in DOMAIN objects
    /\ objects' = Remove(objects, obj)
    /\ UNCHANGED <<gli_register_obj, gli_register_arr, gli_unregister_arr, registry_rs,
                   arrays, objrock>>
    /\ UNCHANGED <<pc, arg, HEAP8, malloc_heap, buffer, ret, eventVars, storageVars,
                   unicodeVars>>

\* gidispatch_call_array_register(array, len, typecode, rock_ptr):
\* rock = gli_register_arr(array, len, typecode); *rock_ptr = rock
gidispatch_call_array_register(array, rock) ==
    /\ Alive
    /\ registry_rs.retained # None
    /\ gli_register_arr # NULL
    /\ array \notin DOMAIN arrays
    /\ arrays' = Put(arrays, array, rock)
    /\ UNCHANGED <<gli_register_obj, gli_register_arr, gli_unregister_arr, registry_rs,
                   objects, objrock>>
    /\ UNCHANGED <<pc, arg, HEAP8, malloc_heap, buffer, ret, eventVars, storageVars,
                   unicodeVars>>

\* gidispatch_call_array_unregister(array, len, typecode, objrock):
\* gli_unregister_arr(array, len, typecode, objrock)
gidispatch_call_array_unregister(array) ==
    /\ Alive
    /\ registry_rs.retained # None
    /\ gli_unregister_arr # NULL
    /\ array \in DOMAIN arrays
    /\ arrays' = Remove(arrays, array)
    /\ UNCHANGED <<gli_register_obj, gli_register_arr, gli_unregister_arr, registry_rs,
                   objects, objrock>>
    /\ UNCHANGED <<pc, arg, HEAP8, malloc_heap, buffer, ret, eventVars, storageVars,
                   unicodeVars>>

\* The per-class lookups of the library core: the rock kept in the object.
gidispatch_get_objrock_fileref(obj) == objects[obj].disprock
gidispatch_get_objrock_stream(obj) == objects[obj].disprock
gidispatch_get_objrock_window(obj) == objects[obj].disprock

Returned(rock) == [outcome |-> "returned", rock |-> rock]

\* __builtin_unreachable() reached: undefined behaviour.  The build traps there, or
\* has dropped the arm and runs on into one of the cases, or returns the rock it
\* never set.
Unreachable ==
    {[outcome |-> "trapped", rock |-> 0]} \cup {Returned(r) : r \in Rocks \cup {0}}

\* gidispatch_get_objrock(obj, objclass), for a live object and its own class or a
\* value that is no class
gidispatch_get_objrock(obj, objclass) ==
    /\ Alive
    /\ obj \in DOMAIN objects
    /\ objclass \in {objects[obj].class} \cup (ObjClassValues \ ObjClasses)
    /\ \E out \in (CASE objclass = gidisp_Class_Fileref ->
                            {Returned(gidispatch_get_objrock_fileref(obj))}
                     [] objclass = gidisp_Class_Stream ->
                            {Returned(gidispatch_get_objrock_stream(obj))}
                     [] objclass = gidisp_Class_Window ->
                            {Returned(gidispatch_get_objrock_window(obj))}
                     [] OTHER -> Unreachable) :
          objrock' = [outcome |-> out.outcome, obj |-> obj, objclass |-> objclass,
                      rock |-> out.rock]
    /\ UNCHANGED <<gli_register_obj, gli_register_arr, gli_unregister_arr, registry_rs,
                   objects, arrays>>
    /\ UNCHANGED <<pc, arg, HEAP8, malloc_heap, buffer, ret, eventVars, storageVars,
                   unicodeVars>>

\* ------------------------------------------------ Unicode Buffer Transformer
\* The code points that occur: a A e f F s S, sharp s, e acute, the combining
\* acute accent, the ligature ff.
CodePoints == {97, 65, 101, 102, 70, 115, 83, 223, 233, 769, 64256}
\* The code points the VM fills its buffers with.
InputCodePoints == {97, 223, 233, 64256}
Operations == {"lowercase", "uppercase", "titlecase", "titlecase_lowerrest",
               "canonical_decompose", "canonical_normalize"}

to_uppercase == [cp \in CodePoints |->
                    CASE cp = 97 -> <<65>>
                      [] cp = 101 -> <<69>>
                      [] cp = 102 -> <<70>>
                      [] cp = 115 -> <<83>>
                      [] cp = 223 -> <<83, 83>>
                      [] cp = 233 -> <<201>>
                      [] cp = 64256 -> <<70, 70>>
                      [] OTHER -> <<cp>>]

to_lowercase == [cp \in CodePoints |->
                    CASE cp = 65 -> <<97>>
                      [] cp = 70 -> <<102>>
                      [] cp = 83 -> <<115>>
                      [] OTHER -> <<cp>>]

\* The special cases of titlecasing the first code point, else its uppercase.
to_titlecase == [cp \in CodePoints |->
                    CASE cp = 223 -> <<83, 115>>
                      [] cp = 64256 -> <<70, 102>>
                      [] OTHER -> to_uppercase[cp]]

to_decomposed == [cp \in CodePoints |->
                    CASE cp = 233 -> <<101, 769>>
                      [] OTHER -> <<cp>>]

RECURSIVE Flatten(_)
Flatten(ss) == IF ss = <<>> THEN <<>> ELSE Head(ss) \o Flatten(Tail(ss))

MapEach(table, s) == Flatten([i \in 1..Len(s) |-> table[s[i]]])

\* Canonical composition: a base letter and the accent after it become one code point.
RECURSIVE Compose(_)
Compose(s) ==
    IF Len(s) < 2 THEN s
    ELSE IF s[1] = 101 /\ s[2] = 769 THEN <<233>> \o Compose(Tail(Tail(s)))
    ELSE <<s[1]>> \o Compose(Tail(s))

\* The code points the operation makes of the code points s.
Transformed(operation, s) ==
    CASE operation = "lowercase" -> MapEach(to_lowercase, s)
      [] operation = "uppercase" -> MapEach(to_uppercase, s)
      [] operation = "titlecase" ->
            IF s = <<>> THEN <<>> ELSE to_titlecase[s[1]] \o Tail(s)
      [] operation = "titlecase_lowerrest" ->
            IF s = <<>> THEN <<>> ELSE to_titlecase[s[1]] \o MapEach(to_lowercase, Tail(s))
      [] operation = "canonical_decompose" -> MapEach(to_decomposed, s)
      [] operation = "canonical_normalize" -> Compose(MapEach(to_decomposed, s))

Min(a, b) == IF a <= b THEN a ELSE b

\* A transform that reports what it wrote, not what it needed.
required_length_clamped(result, capacity) == Min(Len(result), capacity)

\* The length a transform returns: the true number of resulting code points.
required_length(result, capacity) == Len(result)

\* The VM fills a buffer of its own with code points, for its next transform.
VmFillsBuffer(buf) ==
    /\ pc[1] = "running"
    /\ ret = NoRet
    /\ uni_buf = <<>>
    /\ uni_buf' = buf
    /\ uni_call' = NoUniCall
    /\ UNCHANGED <<pc, arg, HEAP8, malloc_heap, buffer, ret, eventVars, storageVars,
                   dispatchVars>>

\* The VM has read what the transform returned and wrote, and drops the buffer.
VmDropsBuffer ==
    /\ uni_call # NoUniCall
    /\ uni_buf' = <<>>
    /\ uni_call' = NoUniCall
    /\ UNCHANGED <<pc, arg, HEAP8, malloc_heap, buffer, ret, eventVars, storageVars,
                   dispatchVars>>

\* transform(buffer_ptr, capacity, logical_length, operation) -> required_length, on
\* the buffer the VM has filled, whose length is the capacity
transform(operation, logical_length) ==
    /\ pc[1] = "running"
    /\ ret = NoRet
    /\ uni_buf # <<>>
    /\ uni_call = NoUniCall
    /\ logical_length \in 0..Len(uni_buf)
    /\ LET capacity == Len(uni_buf)
           result == Transformed(operation, SubSeq(uni_buf, 1, logical_length))
       IN  /\ uni_buf' = [i \in 1..capacity |->
                             IF i <= Len(result) THEN result[i] ELSE uni_buf[i]]
           /\ uni_call' = [op |-> operation, before |-> uni_buf,
                           numchars |-> logical_length, result |-> result,
                           ret |-> required_length(result, capacity)]
    /\ UNCHANGED <<pc, arg, HEAP8, malloc_heap, buffer, ret, eventVars, storageVars,
                   dispatchVars>>

\* ------------------------------------------------------------ specifications
\* The Event Bridge, with emglken_file_exists and emglken_file_read as the other
\* calls that park the VM (and, for the read, fill the out descriptor).
NextEvents ==
    \/ emglken_get_glkote_event
    \/ emglken_get_glkote_event_resume(1)
    \/ \E ev \in Events : HostPublish(ev)
    \/ \E p \in Paths : emglken_file_exists(p)
    \/ \E p \in Paths : emglken_file_read(p)
    \/ DialogSettle(TRUE)
    \/ emglken_file_exists_resume
    \/ emglken_file_read_resume
    \/ VmTakeResult

SpecEvents == Init /\ [][NextEvents]_vars

\* The host publishes whenever it may, and a resolved promise's continuation runs.
LiveSpecEvents ==
    /\ SpecEvents
    /\ WF_vars(\E ev \in Events : HostPublish(ev))
    /\ WF_vars(emglken_get_glkote_event_resume(1))

\* The Event Bridge entered again while context 1 is parked in it.
NextReentrant ==
    \/ NextEvents
    \/ Reenter_get_glkote_event
    \/ emglken_get_glkote_event_resume(2)

SpecReentrant == Init /\ [][NextReentrant]_vars

\* The Storage Bridge.
NextStorage ==
    \/ \E p \in Paths, v \in Views : emglken_file_write_buffer(p, v.ptr, v.len)
    \/ emglken_file_flush
    \/ emglken_file_flush_resume
    \/ \E p \in Paths : emglken_file_read(p)
    \/ emglken_file_read_resume
    \/ \E p \in Paths : emglken_file_exists(p)
    \/ emglken_file_exists_resume
    \/ \E p \in Paths : emglken_file_delete(p)
    \/ emglken_file_delete_resume
    \/ \E ok \in BOOLEAN : DialogSettle(ok)
    \/ \E p \in Paths : emglken_fileref_exists(p)
    \/ \E p \in Paths : emglken_fileref_read(p)
    \/ \E p \in Paths, streaming \in BOOLEAN, opens \in BOOLEAN :
          emglken_file_read_streaming(p, streaming, opens)
    \/ \E addr \in 0..(VmSize - 1), b \in Byte : VmStore(addr, b)
    \/ VmTakeResult

SpecStorage == Init /\ [][NextStorage]_vars

\* The Buffer Codec called directly, the VM keeping or freeing what it is given.
NextCodec ==
    \/ \E data \in ByteSeqs : call_writeBuffer(data)
    \/ \E data \in Events \cup {null} : call_writeBufferJSON(data)
    \/ VmKeepResult
    \/ VmTakeResult
    \/ \E ptr \in MallocPtrs : VmFree(ptr)

SpecCodec == Init /\ [][NextCodec]_vars

\* The Dispatch Registry: the C support code between the VM and the library core.
NextDispatch ==
    \/ \E fns \in RegistryFns : gidispatch_set_object_registry(fns[1], fns[2])
    \/ \E fns \in RegistryFns : gidispatch_set_retained_registry(fns[1], fns[2])
    \/ \E obj \in Objs, objclass \in ObjClasses, rock \in Rocks :
          gidispatch_call_object_register(obj, objclass, rock)
    \/ \E obj \in Objs : object_unregister(obj)
    \/ \E array \in Arrays, rock \in Rocks : gidispatch_call_array_register(array, rock)
    \/ \E array \in Arrays : gidispatch_call_array_unregister(array)
    \/ \E obj \in Objs, objclass \in ObjClassValues : gidispatch_get_objrock(obj, objclass)

SpecDispatch == Init /\ [][NextDispatch]_vars

\* The Storage Bridge of the file reference generation.
NextFileref ==
    \/ \E filetype \in FileTypeValues : emglken_fileref_temporary(filetype)
    \/ \E p \in Paths : emglken_fileref_exists(p)
    \/ \E p \in Paths : emglken_fileref_read(p)
    \/ \E p \in Paths : emglken_fileref_delete(p)
    \/ VmKeepResult
    \/ VmTakeResult
    \/ \E ptr \in MallocPtrs : VmFree(ptr)

SpecFileref == Init /\ [][NextFileref]_vars

\* The Unicode Buffer Transformer applied to the buffers the VM fills.
NextUnicode ==
    \/ \E buf \in UNION {[1..n -> InputCodePoints] : n \in 1..MaxCap} : VmFillsBuffer(buf)
    \/ \E operation \in Operations, logical_length \in 0..MaxCap :
          transform(operation, logical_length)
    \/ VmDropsBuffer

SpecUnicode == Init /\ [][NextUnicode]_vars

\* Both bridges together.
Next == NextEvents \/ NextStorage

Spec == Init /\ [][Next]_vars

\* ------------------------------------------------------------------ claims
\* The step is the return of the boundary call op.
Returns(op) == ret = NoRet /\ ret'.op = op

EventBytes(ev) == Some(encoder_encode(JSON_stringify(ev)))

C2_AtMostOneUncollected ==
    /\ uncollected \in {0, 1}
    /\ (glkote_event_data # null <=> uncollected = 1)

C2_Witness ==
    /\ uncollected = 1
    /\ glkote_event_data = "char"
    /\ pc[1] = "file_exists_await"

\* C3: a second emglken_get_glkote_event call made while the first is parked and
\* no event has been delivered never becomes a second wait, and the parked first
\* call keeps its resolve callback installed.
C3_SecondCallIsRefused ==
    (pc[1] = "get_event_await" /\ 1 \notin resolved) =>
        (glkote_event_ready = 1 /\ pc[2] # "get_event_await")

\* C4: a parked emglken_get_glkote_event call is resumed only by a host
\* publication (its promise is resolved only in a step that fills the empty
\* mailbox, and it leaves its await only with the promise resolved and an event in
\* the mailbox); and, the host publishing whenever it may, a parked call
\* eventually returns.
C4_ResumedOnlyByHost ==
    /\ [][(1 \notin resolved /\ 1 \in resolved') =>
             (glkote_event_data = null /\ glkote_event_data' \in Events)]_vars
    /\ [][(pc[1] = "get_event_await" /\ pc'[1] # "get_event_await") =>
             (1 \in resolved /\ glkote_event_data \in Events)]_vars
    /\ ((pc[1] = "get_event_await") ~> (pc[1] = "running" /\ ret.op = "get_glkote_event"))

C4_Witness ==
    /\ pc[1] = "get_event_await"
    /\ 1 \in resolved
    /\ glkote_event_data \in Events

\* The bytes the batch entry of p shows now.
BatchBytes(p) == Subarray(emglken_files[p])

\* C5: emglken_file_write_buffer only puts the payload in the batch under its
\* path (the other entries stay as they are), issues no provider call and leaves
\* the provider's files as they are; the provider's files change only inside a
\* flush (or a delete).
C5_WriteOnlyBatches ==
    /\ [][Returns("file_write_buffer") =>
             /\ Dialog_files' = Dialog_files
             /\ Dialog_promise' = "none"
             /\ pc' = pc
             /\ \E p \in Paths :
                   /\ p = ret'.path
                   /\ p \in DOMAIN emglken_files'
                   /\ Some(BatchBytes(p))' = given'[p]
                   /\ \A q \in Paths \ {p} :
                         /\ (q \in DOMAIN emglken_files' <=> q \in DOMAIN emglken_files)
                         /\ (q \in DOMAIN emglken_files =>
                                emglken_files'[q] = emglken_files[q])]_vars
    /\ [][Dialog_files' # Dialog_files =>
             pc[1] \in {"file_flush_await", "file_delete_await"}]_vars

C5_Witness ==
    /\ ret.op = "file_write_buffer"
    /\ ret.path = "save.glksave"
    /\ "save.glksave" \in DOMAIN emglken_files
    /\ "save.glksave" \notin DOMAIN Dialog_files

\* C6: a read of an ordinary path that was written and then flushed (nothing
\* pending for it) returns true with the bytes given to the latest write of that
\* path.
C6_ReadAfterFlushReturnsLastWrite ==
    (/\ ret.op = "file_read"
     /\ ret.path # storyfile_name
     /\ ret.path \notin DOMAIN emglken_files
     /\ given[ret.path] # None) =>
        (ret.val = "true" /\ OutBytes = given[ret.path])

\* C7: when a flush returns, every entry the batch held is in the provider's files
\* with the bytes the entry shows, the batch was handed to the provider whole in
\* the one call the flush makes, and the batch is empty; a flush of an empty batch
\* (a second flush with no write in between) changes neither the provider's
\* files nor the batch.
C7_FlushCommitsAndClears ==
    /\ [][Returns("file_flush") =>
             /\ pc[1] = "file_flush_await"
             /\ arg = emglken_files
             /\ \A p \in DOMAIN emglken_files :
                   p \in DOMAIN Dialog_files /\ Dialog_files[p] = BatchBytes(p)
             /\ emglken_files' = EmptyObject]_vars
    /\ [][(pc[1] = "file_flush_await" /\ emglken_files = EmptyObject) =>
             (Dialog_files' = Dialog_files /\ emglken_files' = EmptyObject)]_vars

C7_Witness ==
    /\ ret.op = "file_flush"
    /\ emglken_files = EmptyObject
    /\ "save.glksave" \in DOMAIN Dialog_files
    /\ given["save.glksave"] = Some(Dialog_files["save.glksave"])

C9_StoryfileSpecialCased ==
    /\ (ret.path = storyfile_name /\ ret.op \in {"file_exists", "fileref_exists"}) =>
          ret.val = "true"
    /\ (ret.path = storyfile_name
        /\ ret.op \in {"file_read", "fileref_read", "file_read_streaming"}) =>
          (ret.val = "true" /\ OutBytes = Some(storyfile_data))

ReadOps == {"file_read", "fileref_read", "file_read_streaming"}

\* C10: a read of a path the provider has no file for (or, in the streaming
\* generation, whose stream does not open) returns false to the VM; a read that
\* returns false has allocated nothing and has left the out descriptor as it was.
C10_MissingReadReturnsFalse ==
    /\ [][(\E op \in ReadOps : Returns(op)) /\ ret'.val = "false" =>
             (buffer' = buffer /\ malloc_heap' = malloc_heap)]_vars
    /\ [][(pc[1] = "file_read_await" /\ pc'[1] # "file_read_await"
           /\ arg \notin DOMAIN Dialog_files) =>
             (pc'[1] = "running" /\ ret' = Ret("file_read", arg, "false"))]_vars
    /\ [][(Returns("file_read_streaming") /\ ret'.path # storyfile_name
           /\ ret'.path \notin DOMAIN Dialog_files) =>
             ret'.val = "false"]_vars

C10_Witness ==
    /\ ret = Ret("file_read", "save.glksave", "false")
    /\ buffer.ptr = NULL
    /\ malloc_heap = EmptyObject

\* What one writeBuffer(buffer, data) must have done: the descriptor names a block
\* that was not live before, its length is the data's, the block holds the data,
\* and the live blocks are the earlier ones, untouched, and this one.
RoundTrip(data) ==
    /\ buffer'.ptr \in MallocPtrs \ DOMAIN malloc_heap
    /\ buffer'.len = Len(data)
    /\ OutBytes' = Some(data)
    /\ [i \in 1..buffer'.len |-> malloc_heap'[buffer'.ptr][i]] = data
    /\ DOMAIN malloc_heap' = DOMAIN malloc_heap \cup {buffer'.ptr}
    /\ \A q \in DOMAIN malloc_heap : malloc_heap'[q] = malloc_heap[q]

\* C11: for every byte sequence data (the empty one and those of length 1
\* included), writeBuffer(buffer, data) leaves in the out descriptor the address of
\* a block that was not live before and the length of data, reading that many bytes
\* there gives data back, and exactly one block is allocated, the blocks already
\* live staying as they were; writeBufferJSON does the same with the encoding of
\* the value's JSON text.
C11_WriteBufferRoundTrip ==
    /\ [][\A data \in ByteSeqs : call_writeBuffer(data) => RoundTrip(data)]_vars
    /\ [][\A data \in Events \cup {null} :
             call_writeBufferJSON(data) =>
                RoundTrip(encoder_encode(JSON_stringify(data)))]_vars
    /\ [][(\E op \in {"writeBuffer", "writeBufferJSON"} : Returns(op)) =>
             Cardinality(DOMAIN malloc_heap') = Cardinality(DOMAIN malloc_heap) + 1]_vars

C11_Witness ==
    /\ ret.op = "writeBuffer"
    /\ buffer = [ptr |-> 200, len |-> 0]
    /\ malloc_heap = (100 :> <<1>> @@ 200 :> <<>>)

\* The step is a gidispatch_get_objrock call.
GetObjrock == objrock' # objrock

\* C12: gidispatch_get_objrock called for an object with its class, any of the four
\* classes Fileref, Stream, Window and SoundChannel, returns, and returns the rock
\* the lookup of that class gives for the object (the rock kept in the object).
C12_RoutesOnFourClasses ==
    [][(GetObjrock /\ objrock'.objclass \in ObjClasses) =>
          /\ objrock'.outcome = "returned"
          /\ objrock'.rock = objects[objrock'.obj].disprock]_vars

\* C13: gidispatch_get_objrock called with a class that is none of the four ends
\* the process; it never returns a value to the caller.
C13_UnknownClassIsFatal ==
    [][(GetObjrock /\ objrock'.objclass \notin ObjClasses) =>
          objrock'.outcome = "trapped"]_vars

\* C14: from its registration to its unregistration, every gidispatch_get_objrock
\* call for an object and its class returns the rock the VM's register callback
\* returned for it, whatever else has been registered or unregistered meanwhile.
C14_HandleStable ==
    [][(GetObjrock /\ objrock'.objclass = objects[objrock'.obj].class) =>
          objrock' = [outcome |-> "returned", obj |-> objrock'.obj,
                      objclass |-> objects[objrock'.obj].class,
                      rock |-> objects[objrock'.obj].registered]]_vars

\* C15: once gidispatch_set_object_registry (gidispatch_set_retained_registry) has
\* installed callbacks, no later call replaces them, in the support code or in
\* the library core.
C15_RegistriesSetOnce ==
    /\ [][gli_register_obj # NULL =>
             /\ gli_register_obj' = gli_register_obj
             /\ registry_rs'.object = registry_rs.object]_vars
    /\ [][gli_register_arr # NULL =>
             /\ gli_register_arr' = gli_register_arr
             /\ gli_unregister_arr' = gli_unregister_arr
             /\ registry_rs'.retained = registry_rs.retained]_vars

\* C16: the provider is asked for a temporary reference only with one of the four
\* usages data, save, transcript, command: emglken_fileref_temporary never hands it
\* an undefined usage.
C16_TemporaryKindInRange ==
    Dialog_usage \in {"none"} \cup {FILETYPES[i] : i \in 1..Len(FILETYPES)}

\* C17: a transform returns the number of code points its result has, also when
\* that is more than the capacity; the buffer keeps its capacity, its first
\* min(result length, capacity) code points are the result's and the others are
\* as they were.  The capital of the one code point U+FB00 is two code points:
\* with capacity 3 the call returns 2 and writes both, with capacity 1 it returns
\* 2 and writes one.
C17_TruncationContract ==
    /\ [][uni_call' # NoUniCall =>
             /\ uni_call'.ret = Len(uni_call'.result)
             /\ Len(uni_buf') = Len(uni_buf)
             /\ \A i \in 1..Len(uni_buf) :
                   uni_buf'[i] = IF i <= Min(uni_call'.ret, Len(uni_buf))
                                 THEN uni_call'.result[i]
                                 ELSE uni_buf[i]]_vars
    /\ [][(uni_call' # NoUniCall /\ uni_call'.op = "uppercase" /\ uni_call'.numchars = 1
           /\ uni_buf[1] = 64256) =>
             /\ uni_call'.ret = 2
             /\ Len(uni_buf) = 3 => uni_buf' = <<70, 70, uni_buf[3]>>
             /\ Len(uni_buf) = 1 => uni_buf' = <<70>>]_vars

C17_Witness ==
    /\ uni_call.op = "uppercase"
    /\ uni_call.before = <<64256>>
    /\ uni_call.ret = 2
    /\ uni_buf = <<70>>

C19_BatchPayloadFixed ==
    /\ [][\A p \in Paths :
             (/\ p \in DOMAIN emglken_files
              /\ p \in DOMAIN emglken_files'
              /\ ~(Returns("file_write_buffer") /\ ret'.path = p)) =>
                BatchBytes(p)' = BatchBytes(p)]_vars
    /\ [][(pc[1] = "file_flush_await" /\ Dialog_promise' = "fulfilled") =>
             \A p \in DOMAIN emglken_files : Some(Dialog_files'[p]) = given[p]]_vars

\* C20: no step of emglken_file_delete changes the batch, and the only thing it
\* changes in the provider is that the path's file is gone; so a write that is
\* pending for the path when it is deleted is still in the batch when the delete
\* has returned, and the flush that returns next has stored it: the path has a
\* file again.
C20_DeleteLeavesBatch ==
    /\ [][(pc[1] = "file_delete_await" \/ pc'[1] = "file_delete_await") =>
             emglken_files' = emglken_files]_vars
    /\ [][(pc[1] = "file_delete_await" /\ Dialog_files' # Dialog_files) =>
             Dialog_files' = Remove(Dialog_files, arg)]_vars
    /\ [][Returns("file_delete") =>
             /\ ret'.path \notin DOMAIN Dialog_files'
             /\ emglken_files' = emglken_files]_vars
    /\ [][Returns("file_flush") =>
             \A p \in DOMAIN emglken_files :
                p \in DOMAIN Dialog_files' /\ Dialog_files'[p] = BatchBytes(p)]_vars

C20_Witness ==
    /\ ret = Ret("file_delete", "save.glksave", "void")
    /\ "save.glksave" \in DOMAIN emglken_files
    /\ "save.glksave" \notin DOMAIN Dialog_files
    /\ given["save.glksave"] # None

\* C21: exists and read of one generation agree on every path and every provider
\* state: a read that has just returned has returned true with the out descriptor
\* filled exactly if the exists call of its generation returns true in that state
\* (emglken_file_exists: the provider has the file; emglken_fileref_exists and the
\* streaming emglken_file_exists: the path is the storyfile or the provider has
\* the file), whether or not the path is the storyfile and whether or not the
\* file is empty.
C21_ExistsAndReadAgree ==
    /\ ret.op = "file_exists" =>
          (ret.val = "true" <=> Dialog_exists(ret.path))
    /\ ret.op = "file_read" =>
          ((ret.val = "true" /\ OutBytes # None) <=> Dialog_exists(ret.path))
    /\ ret.op = "fileref_exists" =>
          (ret.val = "true" <=> (ret.path = storyfile_name \/ Dialog_exists(ret.path)))
    /\ ret.op \in {"fileref_read", "file_read_streaming"} =>
          ((ret.val = "true" /\ OutBytes # None) <=>
              (ret.path = storyfile_name \/ Dialog_exists(ret.path)))
====
